---- MODULE Spec2Model ----
(***************************************************************************)
(* History observers of the calculator (app/history.py).                   *)
(*                                                                         *)
(* LoggingObserver.update writes one formatted record to the process-wide  *)
(* logging sink; AutoSaveObserver is bound to a host calculator at         *)
(* construction and, on update, asks the host to save its history when the *)
(* host's config.auto_save is set.                                         *)
(*                                                                         *)
(* The state is what the two observers can touch or see: the host objects  *)
(* (their attributes and their auto_save flag), the AutoSaveObserver       *)
(* objects that exist, the Calculation the calculator currently holds, the *)
(* records of the logging sink and the calls received by save_history.     *)
(***************************************************************************)
EXTENDS Integers, Sequences, FiniteSets, TLC

\* Bounds of the model.
MaxCalls == 3      \* update calls in one behaviour

VARIABLES
  auto_save,     \* host -> BOOLEAN: calculator.config.auto_save of the hosts that have it
  observers,     \* the AutoSaveObserver objects that exist, each [calculator |-> host]
  calculation,   \* the Calculation object the calculator holds
  log,           \* the records emitted to the logging sink, in order
  saveCalls,     \* host -> number of calls its save_history has received
  saveReturns,   \* number of save_history calls that returned normally
  lastCall,      \* the last constructor or update call: what it did and how it ended
  nCalls,        \* update calls made so far
  updatesWhileOn,\* history: host -> update calls (non-None) made while its flag was true
  ctorFlag       \* history: host -> the flag's value when the observer on it was built

vars == <<auto_save, observers, calculation, log, saveCalls, saveReturns,
          lastCall, nCalls, updatesWhileOn, ctorFlag>>

---------------------------------------------------------------------------
\* Calculation objects (app.calculation.Calculation): operation, operand1,
\* operand2, result.  None is Python's None.

None == <<>>

operation(c) == c[1]
operand1(c) == c[2]
operand2(c) == c[3]
result(c) == c[4]

\* The Calculation objects the calculator produces here: <<operation, operand1,
\* operand2, result>>.
Calculations == {<<"add", 2, 3, 5>>, <<"subtract", 3, 7, -4>>, <<"multiply", 4, 4, 16>>}

---------------------------------------------------------------------------
\* Host objects handed to AutoSaveObserver(calculator).  Their attributes are
\* what hasattr(...) and the attribute reads of update see.

HostIds == {"calc", "no_config", "no_save", "bare", "no_flag"}

\* hasattr(calculator, 'config')
HasConfig(h) == h \in {"calc", "no_save", "no_flag"}

\* hasattr(calculator, 'save_history')
HasSaveHistory(h) == h \in {"calc", "no_config", "no_flag"}

\* calculator.config has an auto_save attribute
HasAutoSave(h) == h = "calc"

FlagHosts == {h \in HostIds : HasAutoSave(h)}

---------------------------------------------------------------------------
\* The steps of a call that the outside can see, in the order the code takes
\* them: <<kind, detail>>.
ReadConfig == <<"read", "config.auto_save">>
CallSave == <<"call", "save_history">>
SaveReturned == <<"return", "save_history">>
LogInfo(text) == <<"logging.info", text>>

\* How a call ends.
NoError == "returned"
AttributeError == "AttributeError"
TypeError == "TypeError"
SaveFailure == "raised by save_history"

AutoSavedRecord == "History auto-saved"

\* f"Calculation performed: {calculation.operation} ({calculation.operand1},
\*   {calculation.operand2}) = {calculation.result}"
FormatSwapsOperands(c) ==
  "Calculation performed: " \o operation(c) \o " (" \o ToString(operand2(c))
     \o ", " \o ToString(operand1(c)) \o ") = " \o ToString(result(c))

FormatCalculation(c) ==
  "Calculation performed: " \o operation(c) \o " (" \o ToString(operand1(c))
     \o ", " \o ToString(operand2(c)) \o ") = " \o ToString(result(c))

RECURSIVE CountOf(_, _)
CountOf(s, x) ==
  IF s = <<>> THEN 0
  ELSE (IF Head(s) = x THEN 1 ELSE 0) + CountOf(Tail(s), x)

IsLogInfo(e) == e[1] = "logging.info"

\* The records a call's steps hand to the logging sink, in order.
Emitted(effects) ==
  LET logs == SelectSeq(effects, IsLogInfo)
  IN  [i \in 1..Len(logs) |-> logs[i][2]]

---------------------------------------------------------------------------
Init ==
  /\ auto_save \in [FlagHosts -> BOOLEAN]
  /\ observers = {}
  /\ calculation \in Calculations
  /\ log = <<>>
  /\ saveCalls = [h \in HostIds |-> 0]
  /\ saveReturns = 0
  /\ lastCall = [op |-> "none", host |-> "none", arg |-> None,
                 raised |-> NoError, effects |-> <<>>]
  /\ nCalls = 0
  /\ updatesWhileOn = [h \in HostIds |-> 0]
  /\ ctorFlag = [h \in HostIds |-> "none"]

\* The calculator performs a calculation and holds its Calculation object.
Perform(c) ==
  /\ c \in Calculations
  /\ calculation' = c
  /\ UNCHANGED <<auto_save, observers, log, saveCalls, saveReturns, lastCall,
                 nCalls, updatesWhileOn, ctorFlag>>

\* The configuration of a host changes (outside this file).
SetAutoSave(h, b) ==
  /\ h \in FlagHosts
  /\ auto_save' = [auto_save EXCEPT ![h] = b]
  /\ UNCHANGED <<observers, calculation, log, saveCalls, saveReturns, lastCall,
                 nCalls, updatesWhileOn, ctorFlag>>

---------------------------------------------------------------------------
\* LoggingObserver.update(calculation)

LoggingStepsLogsNone(c) ==
  IF c = None
    THEN [raised |-> AttributeError,
          effects |-> <<LogInfo("Calculation performed: None")>>]
    ELSE [raised |-> NoError, effects |-> <<LogInfo(FormatCalculation(c))>>]

LoggingSteps(c) ==
  IF c = None
    THEN [raised |-> AttributeError, effects |-> <<>>]
    ELSE [raised |-> NoError, effects |-> <<LogInfo(FormatCalculation(c))>>]

LoggingUpdate(c) ==
  /\ nCalls < MaxCalls
  /\ LET r == LoggingSteps(c) IN
       /\ log' = log \o Emitted(r.effects)
       /\ lastCall' = [op |-> "LoggingObserver.update", host |-> "none", arg |-> c,
                       raised |-> r.raised, effects |-> r.effects]
  /\ nCalls' = nCalls + 1
  /\ UNCHANGED <<auto_save, observers, calculation, saveCalls, saveReturns,
                 updatesWhileOn, ctorFlag>>

---------------------------------------------------------------------------
\* AutoSaveObserver.__init__(calculator)

RejectsOnlyBare(h) == ~HasConfig(h) /\ ~HasSaveHistory(h)

RejectsOnlyNoConfig(h) == ~HasConfig(h)

\* not hasattr(calculator, 'config') or not hasattr(calculator, 'save_history')
ConstructorRejects(h) == ~HasConfig(h) \/ ~HasSaveHistory(h)

FlagNow(h) ==
  IF ~HasAutoSave(h) THEN "none" ELSE IF auto_save[h] THEN "true" ELSE "false"

Construct(h) ==
  /\ h \in HostIds
  /\ IF ConstructorRejects(h)
       THEN /\ lastCall' = [op |-> "AutoSaveObserver.__init__", host |-> h,
                            arg |-> None, raised |-> TypeError, effects |-> <<>>]
            /\ UNCHANGED <<observers, ctorFlag>>
       ELSE /\ observers' = observers \cup {[calculator |-> h]}
            /\ lastCall' = [op |-> "AutoSaveObserver.__init__", host |-> h,
                            arg |-> None, raised |-> NoError, effects |-> <<>>]
            /\ ctorFlag' = IF [calculator |-> h] \in observers THEN ctorFlag
                           ELSE [ctorFlag EXCEPT ![h] = FlagNow(h)]
  /\ UNCHANGED <<auto_save, calculation, log, saveCalls, saveReturns, nCalls,
                 updatesWhileOn>>

---------------------------------------------------------------------------
\* AutoSaveObserver.update(calculation)

FlagAlwaysOn(o) == TRUE

FlagCachedAtConstruction(o) == ctorFlag[o.calculator] = "true"

\* self.calculator.config.auto_save, read when update runs
AutoSaveFlag(o) == auto_save[o.calculator]

\* saveOk: whether the host's save_history returns normally or raises.
AutoSaveStepsSavesTwice(o, c, saveOk) ==
  IF c = None THEN [raised |-> AttributeError, effects |-> <<>>]
  ELSE IF ~HasAutoSave(o.calculator)
    THEN [raised |-> AttributeError, effects |-> <<ReadConfig>>]
  ELSE IF AutoSaveFlag(o)
    THEN IF saveOk
           THEN [raised |-> NoError,
                 effects |-> <<ReadConfig, CallSave, SaveReturned, CallSave,
                               SaveReturned, LogInfo(AutoSavedRecord)>>]
           ELSE [raised |-> SaveFailure, effects |-> <<ReadConfig, CallSave>>]
  ELSE [raised |-> NoError, effects |-> <<ReadConfig>>]

AutoSaveStepsReadsConfigFirst(o, c, saveOk) ==
  IF ~HasAutoSave(o.calculator)
    THEN [raised |-> AttributeError, effects |-> <<ReadConfig>>]
  ELSE IF c = None THEN [raised |-> AttributeError, effects |-> <<ReadConfig>>]
  ELSE IF AutoSaveFlag(o)
    THEN IF saveOk
           THEN [raised |-> NoError,
                 effects |-> <<ReadConfig, CallSave, SaveReturned,
                               LogInfo(AutoSavedRecord)>>]
           ELSE [raised |-> SaveFailure, effects |-> <<ReadConfig, CallSave>>]
  ELSE [raised |-> NoError, effects |-> <<ReadConfig>>]

AutoSaveStepsLogsBeforeSave(o, c, saveOk) ==
  IF c = None THEN [raised |-> AttributeError, effects |-> <<>>]
  ELSE IF ~HasAutoSave(o.calculator)
    THEN [raised |-> AttributeError, effects |-> <<ReadConfig>>]
  ELSE IF AutoSaveFlag(o)
    THEN IF saveOk
           THEN [raised |-> NoError,
                 effects |-> <<ReadConfig, LogInfo(AutoSavedRecord), CallSave,
                               SaveReturned>>]
           ELSE [raised |-> SaveFailure,
                 effects |-> <<ReadConfig, LogInfo(AutoSavedRecord), CallSave>>]
  ELSE [raised |-> NoError, effects |-> <<ReadConfig>>]

AutoSaveSteps(o, c, saveOk) ==
  IF c = None THEN [raised |-> AttributeError, effects |-> <<>>]
  ELSE IF ~HasAutoSave(o.calculator)
    THEN [raised |-> AttributeError, effects |-> <<ReadConfig>>]
  ELSE IF AutoSaveFlag(o)
    THEN IF saveOk
           THEN [raised |-> NoError,
                 effects |-> <<ReadConfig, CallSave, SaveReturned,
                               LogInfo(AutoSavedRecord)>>]
           ELSE [raised |-> SaveFailure, effects |-> <<ReadConfig, CallSave>>]
  ELSE [raised |-> NoError, effects |-> <<ReadConfig>>]

AutoSaveUpdateTurnsFlagOff(o) ==
  /\ auto_save' = [h \in FlagHosts |-> IF h = o.calculator THEN FALSE ELSE auto_save[h]]
  /\ UNCHANGED <<observers, calculation>>

\* update assigns to no attribute of the observer, the host or the calculation
AutoSaveUpdateLeaves(o) == UNCHANGED <<auto_save, observers, calculation>>

AutoSaveUpdate(o, c, saveOk) ==
  /\ o \in observers
  /\ nCalls < MaxCalls
  /\ LET r == AutoSaveSteps(o, c, saveOk)
         h == o.calculator
     IN
       /\ log' = log \o Emitted(r.effects)
       /\ saveCalls' = [saveCalls EXCEPT ![h] = @ + CountOf(r.effects, CallSave)]
       /\ saveReturns' = saveReturns + CountOf(r.effects, SaveReturned)
       /\ lastCall' = [op |-> "AutoSaveObserver.update", host |-> h, arg |-> c,
                       raised |-> r.raised, effects |-> r.effects]
       /\ updatesWhileOn' =
            [updatesWhileOn EXCEPT ![h] =
               IF c # None /\ HasAutoSave(h) /\ auto_save[h] THEN @ + 1 ELSE @]
  /\ nCalls' = nCalls + 1
  /\ AutoSaveUpdateLeaves(o)
  /\ UNCHANGED ctorFlag

---------------------------------------------------------------------------
Next ==
  \/ \E c \in Calculations : Perform(c)
  \/ \E h \in FlagHosts, b \in BOOLEAN : SetAutoSave(h, b)
  \/ \E h \in HostIds : Construct(h)
  \/ \E c \in {calculation, None} : LoggingUpdate(c)
  \/ \E o \in observers, c \in {calculation, None}, saveOk \in BOOLEAN :
        AutoSaveUpdate(o, c, saveOk)

Spec == Init /\ [][Next]_vars

---------------------------------------------------------------------------
\* Which call a step is, read off the record of the call it leaves behind.

AutoSaveUpdateStep ==
  nCalls' = nCalls + 1 /\ lastCall'.op = "AutoSaveObserver.update"

LoggingUpdateStep ==
  nCalls' = nCalls + 1 /\ lastCall'.op = "LoggingObserver.update"

LastIsAutoSaveUpdate == lastCall.op = "AutoSaveObserver.update"
LastIsLoggingUpdate == lastCall.op = "LoggingObserver.update"
LastIsConstructor == lastCall.op = "AutoSaveObserver.__init__"

\* The host is valid and its flag is on / off when the step starts.
FlagOnBefore(h) == HasConfig(h) /\ HasSaveHistory(h) /\ HasAutoSave(h) /\ auto_save[h]
FlagOffBefore(h) == HasConfig(h) /\ HasSaveHistory(h) /\ HasAutoSave(h) /\ ~auto_save[h]

OneMoreSaveOn(h) == saveCalls' = [saveCalls EXCEPT ![h] = @ + 1]

---------------------------------------------------------------------------
\* C1 as stated: one update(calc) with a non-None calc on a valid host whose
\* auto_save is true calls save_history exactly once and then emits exactly
\* one record, the auto-save record, whatever save_history does.
C1_Original ==
  [][(AutoSaveUpdateStep /\ lastCall'.arg # None /\ FlagOnBefore(lastCall'.host))
       => (/\ OneMoreSaveOn(lastCall'.host)
           /\ log' = Append(log, AutoSavedRecord))]_vars

\* C1 amended: under the same conditions save_history is called exactly once;
\* when it returns normally exactly one record, the auto-save record, is
\* appended after it and update returns; when it raises, update ends with
\* that error and the log is unchanged.
C1_SaveOnceThenOneRecord ==
  [][(AutoSaveUpdateStep /\ lastCall'.arg # None /\ FlagOnBefore(lastCall'.host))
       => (/\ OneMoreSaveOn(lastCall'.host)
           /\ lastCall'.raised \in {NoError, SaveFailure}
           /\ lastCall'.raised = NoError
                => (/\ log' = Append(log, AutoSavedRecord)
                    /\ saveReturns' = saveReturns + 1)
           /\ lastCall'.raised = SaveFailure
                => (log' = log /\ saveReturns' = saveReturns))]_vars

C1_Witness ==
  /\ LastIsAutoSaveUpdate /\ lastCall.arg # None /\ lastCall.host = "calc"
  /\ lastCall.raised = NoError
  /\ saveCalls["calc"] = 1 /\ saveReturns = 1
  /\ log = <<AutoSavedRecord>>

\* C2: one update(calc) with a non-None calc on a valid host whose auto_save
\* is false calls save_history zero times and leaves the log unchanged.
C2_FlagOffNoEffect ==
  [][(AutoSaveUpdateStep /\ lastCall'.arg # None /\ FlagOffBefore(lastCall'.host))
       => (/\ saveCalls' = saveCalls
           /\ saveReturns' = saveReturns
           /\ log' = log
           /\ lastCall'.raised = NoError)]_vars

C2_Witness ==
  /\ LastIsAutoSaveUpdate /\ lastCall.arg # None /\ lastCall.host = "calc"
  /\ lastCall.raised = NoError
  /\ ~auto_save["calc"]
  /\ saveCalls["calc"] = 0 /\ log = <<>> /\ nCalls = 1

\* C3: whatever the flag was when the observer was built, the number of
\* save_history calls a host has received equals the number of update calls
\* with a non-None calculation made while its auto_save flag was true.
C3_SavesFollowLiveFlag ==
  \A h \in HostIds : saveCalls[h] = updatesWhileOn[h]

\* The observer was built while the flag was false, the flag was turned on and
\* an update saved, then it was turned off again and an update did not save.
C3_Witness ==
  /\ ctorFlag["calc"] = "false"
  /\ saveCalls["calc"] = 1
  /\ nCalls >= 2
  /\ LastIsAutoSaveUpdate /\ lastCall.host = "calc" /\ lastCall.arg # None
  /\ lastCall.effects = <<ReadConfig>>

\* C4: update(None) on an AutoSaveObserver ends with the invalid-argument
\* error before config is read and before save_history is called: the call
\* takes no step, and the save counts and the log are unchanged.
C4_NoneFailsFirst ==
  [][(AutoSaveUpdateStep /\ lastCall'.arg = None)
       => (/\ lastCall'.raised = AttributeError
           /\ lastCall'.effects = <<>>
           /\ saveCalls' = saveCalls
           /\ saveReturns' = saveReturns
           /\ log' = log)]_vars

C4_Witness ==
  /\ LastIsAutoSaveUpdate /\ lastCall.arg = None /\ lastCall.host = "calc"
  /\ lastCall.raised = AttributeError
  /\ auto_save["calc"] /\ nCalls = 1

\* C5: constructing an AutoSaveObserver over a host without config, without
\* save_history or without both ends with the type error and creates no
\* observer, so no reference to that host is held; a host with both is
\* accepted and the observer holds it.
C5_ConstructorChecks ==
  /\ [](LastIsConstructor =>
          /\ lastCall.raised = TypeError
               <=> lastCall.host \in {"no_config", "no_save", "bare"}
          /\ lastCall.raised = TypeError
               => [calculator |-> lastCall.host] \notin observers
          /\ lastCall.raised # TypeError
               => (lastCall.raised = NoError
                   /\ [calculator |-> lastCall.host] \in observers))
  /\ [][(lastCall'.op = "AutoSaveObserver.__init__" /\ lastCall'.raised = TypeError)
         => observers' = observers]_vars

C5_Witness ==
  /\ LastIsConstructor /\ lastCall.host = "no_save" /\ lastCall.raised = TypeError
  /\ observers = {[calculator |-> "calc"]}

---------------------------------------------------------------------------
\* C6 as stated: every constructed AutoSaveObserver holds a host that exposes
\* config.auto_save and save_history, so no update with a calculation fails
\* on a missing capability.
C6_Original ==
  /\ \A o \in observers :
        HasConfig(o.calculator) /\ HasAutoSave(o.calculator)
          /\ HasSaveHistory(o.calculator)
  /\ (LastIsAutoSaveUpdate /\ lastCall.arg # None)
        => lastCall.raised # AttributeError

\* C6 amended: every constructed AutoSaveObserver holds a host that has
\* config and save_history; the constructor does not look for auto_save on
\* config, and an update with a calculation on an observer whose host's
\* config lacks it fails with the attribute error when it reads the flag,
\* without saving or logging, while on a host that has it no update with a
\* calculation fails on a missing capability.
C6_HeldHostHasConfigAndSave ==
  /\ \A o \in observers :
        HasConfig(o.calculator) /\ HasSaveHistory(o.calculator)
  /\ (LastIsAutoSaveUpdate /\ lastCall.arg # None)
        => /\ lastCall.raised = AttributeError <=> ~HasAutoSave(lastCall.host)
           /\ lastCall.raised = AttributeError
                => lastCall.effects = <<ReadConfig>>

C6_Witness ==
  /\ [calculator |-> "no_flag"] \in observers
  /\ LastIsAutoSaveUpdate /\ lastCall.host = "no_flag" /\ lastCall.arg # None
  /\ lastCall.raised = AttributeError

\* The record the fixed format gives for each calculation of the model.
ExpectedRecord(c) ==
  CASE c = <<"add", 2, 3, 5>> -> "Calculation performed: add (2, 3) = 5"
    [] c = <<"subtract", 3, 7, -4>> -> "Calculation performed: subtract (3, 7) = -4"
    [] c = <<"multiply", 4, 4, 16>> -> "Calculation performed: multiply (4, 4) = 16"

\* C7: LoggingObserver.update with a non-None Calculation returns and appends
\* exactly one record to the log, the fixed format filled with the operation,
\* the first operand, the second operand and the result in that order; the
\* records so stand in the log in call order.
C7_OneFormattedRecord ==
  [][(LoggingUpdateStep /\ lastCall'.arg # None)
       => (/\ lastCall'.raised = NoError
           /\ log' = Append(log, ExpectedRecord(lastCall'.arg)))]_vars

C7_Witness ==
  /\ LastIsLoggingUpdate /\ lastCall.arg = <<"add", 2, 3, 5>>
  /\ nCalls = 2
  /\ log = <<"Calculation performed: subtract (3, 7) = -4",
             "Calculation performed: add (2, 3) = 5">>

\* C8: LoggingObserver.update(None) ends with the invalid-argument error and
\* the log after the call equals the log before it.
C8_LoggingNoneFails ==
  [][(LoggingUpdateStep /\ lastCall'.arg = None)
       => (/\ lastCall'.raised = AttributeError
           /\ lastCall'.effects = <<>>
           /\ log' = log)]_vars

C8_Witness ==
  /\ LastIsLoggingUpdate /\ lastCall.arg = None
  /\ lastCall.raised = AttributeError
  /\ Len(log) = 1 /\ nCalls = 2

\* The steps of a call before its i-th.
Before(effects, i) == SubSeq(effects, 1, i - 1)

\* C9: in AutoSaveObserver.update the auto-save record is emitted only after
\* save_history was called and returned; when save_history raises, update
\* ends with that error, not caught and not replaced, and emits no record for
\* that call; so the log never holds more auto-save records than
\* save_history calls that completed.
C9_SaveBeforeRecord ==
  /\ [](LastIsAutoSaveUpdate =>
          /\ \A i \in 1..Len(lastCall.effects) :
                IsLogInfo(lastCall.effects[i])
                  => /\ lastCall.effects[i] = LogInfo(AutoSavedRecord)
                     /\ CountOf(Before(lastCall.effects, i), CallSave) = 1
                     /\ CountOf(Before(lastCall.effects, i), SaveReturned) = 1
          /\ (CountOf(lastCall.effects, CallSave)
                 > CountOf(lastCall.effects, SaveReturned))
                => /\ lastCall.raised = SaveFailure
                   /\ Emitted(lastCall.effects) = <<>>)
  /\ [](CountOf(log, AutoSavedRecord) <= saveReturns)
  /\ [][(AutoSaveUpdateStep /\ lastCall'.raised = SaveFailure)
         => (log' = log /\ saveReturns' = saveReturns
             /\ OneMoreSaveOn(lastCall'.host))]_vars

C9_Witness ==
  /\ LastIsAutoSaveUpdate /\ lastCall.raised = SaveFailure
  /\ saveCalls["calc"] = 2 /\ saveReturns = 1
  /\ log = <<AutoSavedRecord>>

\* C10: an update of either observer, returning or failing, leaves the
\* Calculation it was given, the host's config.auto_save and the observer's
\* reference to its host as they were.
C10_UpdateReadsOnly ==
  [][(nCalls' # nCalls)
       => (/\ calculation' = calculation
           /\ auto_save' = auto_save
           /\ observers' = observers
           /\ lastCall'.arg \in {None, calculation'})]_vars

C10_Witness ==
  /\ LastIsAutoSaveUpdate /\ lastCall.arg = calculation /\ lastCall.host = "calc"
  /\ lastCall.raised = NoError /\ saveCalls["calc"] = 1
  /\ auto_save["calc"]
  /\ Len(log) = 2 /\ nCalls = 3

====
